---- MODULE Spec2Model ----
(***************************************************************************)
(* Model of the resource synthesis engine of ecs_composex: port merge,     *)
(* step scaling, secrets/environment sorting, family side-cars, launch     *)
(* type resolution, listener default actions, listener target resolution,  *)
(* change set polling, target tracking merge, security group ingress, the  *)
(* final pass of a family and plan mode.  Each component has its own       *)
(* specification over the shared variables; the variables of the other     *)
(* components stay at their idle values.                                   *)
(***************************************************************************)
EXTENDS Integers, Sequences, FiniteSets, TLC

VARIABLES
    \* ServiceNetworking (service_networking/__init__.py)
    svc_ports,        \* service.ports of chain(managed_sidecars, ordered_services)
    ports,            \* ServiceNetworking.ports
    merge_runs,       \* number of merge_services_ports calls made so far
    ports_first,      \* ServiceNetworking.ports as left by the first call
    \* Step scaling (service_scaling/helpers.py)
    steps,            \* the Steps of the scaling definition
    has_target,       \* whether a ScalableTarget is passed
    max_capacity_in,  \* target.MaxCapacity on entry
    max_capacity,     \* target.MaxCapacity
    cfn_steps,        \* the StepAdjustment list returned
    scaling_result,   \* "none" before the call, then "ok" or the exception raised
    \* Secrets / environment sorting (ecs_family/__init__.py)
    containers_in,    \* Secrets and Environment of each service's container on entry
    containers,       \* Secrets and Environment of each service's container
    sort_result,      \* "none" before sort_secrets_env_vars, then "ok" or the exception
    \* ComposeFamily (ecs_family/__init__.py)
    compose_services,     \* ComposeFamily._compose_services (service names)
    ordered_services,     \* ComposeFamily.ordered_services
    managed_sidecars,     \* ComposeFamily.managed_sidecars
    task_definition,      \* <<>> while None, else <<ContainerDefinitions>>
    task_compute,         \* whether ComposeFamily.task_compute is set
    family_call,          \* the last method called on the family
    family_calls,         \* number of calls made on the family
    family_result,        \* "ok", or the exception the last call raised
    \* Launch type resolution (ecs_cluster/ecs_family_helpers.py)
    launch_type_in,              \* family.service_compute.launch_type on entry
    launch_type,                 \* family.service_compute.launch_type
    ecs_capacity_providers,      \* family.service_compute.ecs_capacity_providers (names)
    capacity_providers,          \* cluster.capacity_providers
    default_strategy_providers,  \* cluster.default_strategy_providers
    platform_override,           \* cluster.platform_override
    service_definition,          \* <<>> while None, else <<CapacityProviderStrategy>>
    compute_result,              \* "none" before the call, then "ok" or the exception
    \* ComposeListener (elbv2_stack/elbv2_listener/__init__.py)
    listener_services,   \* ComposeListener.services (the declared Targets)
    default_actions,     \* ComposeListener.default_actions (declared DefaultActions)
    Protocol,            \* Listener.Protocol
    Certificates,        \* Listener.Certificates: "absent", "empty" or "defined"
    lb_type,             \* the load balancer type: "application" or "network"
    DefaultActions,      \* Listener.DefaultActions
    template_rules,      \* the ListenerRule resources added to the template
    listener_result,     \* "none" before define_default_actions, then "ok" or the exception
    \* Listener target resolution (elbv2_stack/helpers.py)
    families_targets,    \* lb.families_targets: the families and their target groups
    lb_services,         \* the keys of lb.services
    resolver_services_in,\* ComposeListener.services on entry to the mapping
    resolver_services,   \* ComposeListener.services while their targets are resolved
    map_result,          \* "none" before the mapping, then "ok" or the exception
    \* Change set polling (common/aws.py)
    change_set_status,   \* status["Status"] of the last describe_change_set, "" before
    polls,               \* number of describe_change_set calls made (counted up to MaxPolls)
    poll_result,         \* "none" before the call, "polling" in the loop, then "returned" / "SystemExit"
    \* Target tracking merge (service_scaling/helpers.py)
    x_scaling_configs,   \* the TargetScaling of each service of the family that has one
    x_scaling,           \* x_scaling["TargetScaling"] of the family
    merge_result,        \* "none" before merge_family_services_scaling, then "ok"
    \* Security group ingress (service_networking/__init__.py)
    ingress_ports,       \* ServiceNetworking.ports when the ingress rules are added
    family_ready,        \* whether family.template and family.ecs_service are both set
    ingress_from_self,   \* ServiceNetworking.ingress_from_self
    template_resources,  \* the SecurityGroupIngress resources of family.template
    to_self_rules,       \* ServiceNetworking.ingress.to_self_rules
    ingress_call,        \* the last ingress method called and its load balancer
    ingress_calls,       \* number of ingress calls made
    ingress_result,      \* "none" before any call, then "ok" or the exception of the last call
    \* Final pass of a family (ecs_family/__init__.py)
    finalize_trace,      \* the steps of finalize_family_settings that have run, in order
    \* Plan mode (common/aws.py)
    stack_status,        \* StackStatus of the stack named settings.name before plan, "" when none
    plan_valid,          \* whether validate_can_deploy_stack_from_settings accepts the settings
    plan_apply,          \* the apply argument: "None", "True" or "False"
    plan_cleanup,        \* the cleanup argument: "None", "True" or "False"
    plan_pc,             \* "plan", then "plan_user_input", "returned" or the exception raised
    cfn_requests         \* the change requests sent to CloudFormation, in order

portsVars == <<svc_ports, ports, merge_runs, ports_first>>

scalingVars == <<steps, has_target, max_capacity_in, max_capacity, cfn_steps, scaling_result>>

sortVars == <<containers_in, containers, sort_result>>

familyVars == <<compose_services, ordered_services, managed_sidecars, task_definition,
                task_compute, family_call, family_calls, family_result>>

computeVars == <<launch_type_in, launch_type, ecs_capacity_providers, capacity_providers,
                 default_strategy_providers, platform_override, service_definition,
                 compute_result>>

listenerVars == <<listener_services, default_actions, Protocol, Certificates, lb_type,
                  DefaultActions, template_rules, listener_result>>

resolverVars == <<families_targets, lb_services, resolver_services_in, resolver_services,
                  map_result>>

pollingVars == <<change_set_status, polls, poll_result>>

trackingVars == <<x_scaling_configs, x_scaling, merge_result>>

ingressVars == <<ingress_ports, family_ready, ingress_from_self, template_resources,
                 to_self_rules, ingress_call, ingress_calls, ingress_result>>

finalizeVars == <<finalize_trace>>

planVars == <<stack_status, plan_valid, plan_apply, plan_cleanup, plan_pc, cfn_requests>>

vars == <<portsVars, scalingVars, sortVars, familyVars, computeVars, listenerVars, resolverVars, pollingVars, trackingVars, ingressVars, finalizeVars, planVars>>

None == "None"

----------------------------------------------------------------------------
(* Generic helpers *)

Range(s) == {s[i] : i \in 1..Len(s)}

SeqsUpTo(S, n) == UNION {[1..k -> S] : k \in 0..n}

\* An optional value: <<>> when the key is absent (or None), <<v>> when set.
Unset == <<>>

Some(v) == <<v>>

RECURSIVE Flatten(_)
Flatten(ss) == IF ss = <<>> THEN <<>> ELSE Head(ss) \o Flatten(Tail(ss))

----------------------------------------------------------------------------
(* The state of each component before it is used *)

PortsIdle ==
    /\ svc_ports = <<>>
    /\ ports = <<>>
    /\ merge_runs = 0
    /\ ports_first = <<>>

ScalingIdle ==
    /\ steps = <<>>
    /\ has_target = FALSE
    /\ max_capacity_in = 0
    /\ max_capacity = 0
    /\ cfn_steps = <<>>
    /\ scaling_result = "none"

SortIdle ==
    /\ containers_in = <<>>
    /\ containers = <<>>
    /\ sort_result = "none"

NoCall == [op |-> "__init__", name |-> "", skipped |-> FALSE]

FamilyIdle ==
    /\ compose_services = <<>>
    /\ ordered_services = <<>>
    /\ managed_sidecars = <<>>
    /\ task_definition = <<>>
    /\ task_compute = FALSE
    /\ family_call = NoCall
    /\ family_calls = 0
    /\ family_result = "ok"

ComputeIdle ==
    /\ launch_type_in = None
    /\ launch_type = None
    /\ ecs_capacity_providers = {}
    /\ capacity_providers = {}
    /\ default_strategy_providers = {}
    /\ platform_override = None
    /\ service_definition = <<>>
    /\ compute_result = "none"

ListenerIdle ==
    /\ listener_services = <<>>
    /\ default_actions = <<>>
    /\ Protocol = "HTTP"
    /\ Certificates = "absent"
    /\ lb_type = "application"
    /\ DefaultActions = <<>>
    /\ template_rules = <<>>
    /\ listener_result = "none"

ResolverIdle ==
    /\ families_targets = <<>>
    /\ lb_services = <<>>
    /\ resolver_services_in = <<>>
    /\ resolver_services = <<>>
    /\ map_result = "none"

PollingIdle ==
    /\ change_set_status = ""
    /\ polls = 0
    /\ poll_result = "none"

TrackingIdle ==
    /\ x_scaling_configs = <<>>
    /\ x_scaling = <<>>
    /\ merge_result = "none"

IngressIdle ==
    /\ ingress_ports = <<>>
    /\ family_ready = FALSE
    /\ ingress_from_self = FALSE
    /\ template_resources = {}
    /\ to_self_rules = <<>>
    /\ ingress_call = [op |-> "", lb_name |-> ""]
    /\ ingress_calls = 0
    /\ ingress_result = "none"

FinalizeIdle ==
    /\ finalize_trace = <<>>

PlanIdle ==
    /\ stack_status = ""
    /\ plan_valid = FALSE
    /\ plan_apply = None
    /\ plan_cleanup = None
    /\ plan_pc = ""
    /\ cfn_requests = <<>>

----------------------------------------------------------------------------
(* Port & network merger *)

MaxFamilyPortSets == 2
MaxServicePorts == 2
MaxMergeRuns == 2

\* Long-form port declarations {target, published, protocol} a service may carry.
PortUniverse ==
    { [target |-> 80, published |-> 80,   protocol |-> "tcp"],
      [target |-> 80, published |-> 8080, protocol |-> "tcp"],
      [target |-> 53, published |-> 53,   protocol |-> "tcp"],
      [target |-> 53, published |-> 53,   protocol |-> "udp"] }

PortKey(p) == <<p.target, p.protocol>>

\* A service declares a (target, protocol) at most once.
ServicePortLists ==
    { l \in SeqsUpTo(PortUniverse, MaxServicePorts) :
        \A i, j \in 1..Len(l) : PortKey(l[i]) = PortKey(l[j]) => i = j }

\* set_service_ports: long-form declarations are kept as they are, in order.
set_service_ports(port_list) == port_list

\* source_ports: the port sets of the services that declare ports.
source_ports(all_ports) == SelectSeq(all_ports, LAMBDA ps : ps # <<>>)

\* Mutant: accumulated ports are kept whatever the incoming set declares.
merge_port_set_keep_all(acc, port_set) ==
    LET f_source_ports == set_service_ports(acc)
        f_override_ports == set_service_ports(port_set)
    IN  Flatten([i \in 1..Len(f_override_ports) |->
                    <<f_override_ports[i]>> \o f_source_ports])

\* One iteration of the outer loop of merge_services_ports: the accumulated
\* list is rebuilt from the incoming set; the loop over the accumulated ports
\* runs once for every incoming port.
merge_port_set(acc, port_set) ==
    LET f_source_ports == set_service_ports(acc)
        f_override_ports == set_service_ports(port_set)
        f_overide_ports_targets ==
            {f_override_ports[i].target : i \in 1..Len(f_override_ports)}
        kept == SelectSeq(f_source_ports,
                          LAMBDA s_port : s_port.target \notin f_overide_ports_targets)
    IN  Flatten([i \in 1..Len(f_override_ports) |->
                    <<f_override_ports[i]>> \o kept])

RECURSIVE merge_all(_, _)
merge_all(acc, port_sets) ==
    IF port_sets = <<>> THEN acc
    ELSE merge_all(merge_port_set(acc, Head(port_sets)), Tail(port_sets))

InitPorts ==
    /\ ScalingIdle
    /\ SortIdle
    /\ FamilyIdle
    /\ ComputeIdle
    /\ ListenerIdle
    /\ ResolverIdle
    /\ PollingIdle
    /\ TrackingIdle
    /\ IngressIdle
    /\ FinalizeIdle
    /\ PlanIdle
    /\ svc_ports \in SeqsUpTo(ServicePortLists, MaxFamilyPortSets)
    /\ ports = <<>>
    /\ merge_runs = 0
    /\ ports_first = <<>>

merge_services_ports ==
    /\ merge_runs < MaxMergeRuns
    /\ ports' = merge_all(ports, source_ports(svc_ports))
    /\ merge_runs' = merge_runs + 1
    /\ ports_first' = IF merge_runs = 0 THEN ports' ELSE ports_first
    /\ UNCHANGED svc_ports
    /\ UNCHANGED <<scalingVars, sortVars, familyVars, computeVars, listenerVars, resolverVars, pollingVars, trackingVars, ingressVars, finalizeVars, planVars>>

NextPorts == merge_services_ports

SpecPorts == InitPorts /\ [][NextPorts]_vars

(* Claims on the port merger *)

SourceSets == source_ports(svc_ports)

DeclaredTargets == {p.target : p \in UNION {Range(SourceSets[k]) : k \in 1..Len(SourceSets)}}

DeclaredKeys == {PortKey(p) : p \in UNION {Range(SourceSets[k]) : k \in 1..Len(SourceSets)}}

\* Index of the last port set, in iteration order, that declares target t.
LastDeclaringTarget(t) ==
    CHOOSE k \in 1..Len(SourceSets) :
        /\ \E p \in Range(SourceSets[k]) : p.target = t
        /\ \A j \in (k+1)..Len(SourceSets) : \A p \in Range(SourceSets[j]) : p.target # t

\* Index of the last port set, in iteration order, that declares (target, protocol) key.
LastDeclaringKey(key) ==
    CHOOSE k \in 1..Len(SourceSets) :
        /\ \E p \in Range(SourceSets[k]) : PortKey(p) = key
        /\ \A j \in (k+1)..Len(SourceSets) : \A p \in Range(SourceSets[j]) : PortKey(p) # key

\* C1: after merge_services_ports the port list holds at most one entry per
\* key, and a second run on the same family leaves the identical list.
C1_MergeDeduplicatedAndIdempotent ==
    merge_runs >= 1 =>
        /\ \A i, j \in 1..Len(ports) : PortKey(ports[i]) = PortKey(ports[j]) => i = j
        /\ (merge_runs = 2 => ports = ports_first)

\* C2: after merge_services_ports every declared target is present, and the
\* entries held for a target are exactly those of the last service, in
\* iteration order, that declares that target.
C2_LastDeclarationWins ==
    merge_runs >= 1 =>
        \A t \in DeclaredTargets :
            /\ \E e \in Range(ports) : e.target = t
            /\ {e \in Range(ports) : e.target = t}
                 = {p \in Range(SourceSets[LastDeclaringTarget(t)]) : p.target = t}

\* C2 witness: the second service overrides the first one's value for a
\* target, and the first service's other target is kept.
C2_Witness ==
    /\ merge_runs = 1
    /\ Len(svc_ports) = 2
    /\ \E a \in Range(svc_ports[1]), b \in Range(svc_ports[2]) :
          a.target = b.target /\ a # b /\ b \in Range(ports) /\ a \notin Range(ports)
    /\ \E a \in Range(svc_ports[1]) :
          a \in Range(ports) /\ \A b \in Range(svc_ports[2]) : b.target # a.target

\* C3: the uniqueness key is (target, protocol): every declared (target,
\* protocol) is present after the merge with the value of the last service
\* declaring that same target and protocol.
C3_KeyIsTargetAndProtocol ==
    merge_runs >= 1 =>
        \A key \in DeclaredKeys :
            \E e \in Range(ports) :
                /\ PortKey(e) = key
                /\ e \in Range(SourceSets[LastDeclaringKey(key)])

----------------------------------------------------------------------------
(* Step scaling *)

MaxSteps == 2

BoundValues == {0, 5, 10}

StepCounts == {1, 5}

TargetCapacities == {3, 5}

\* A step definition; Other is TRUE when it carries a key outside
\* LowerBound, UpperBound, Count.
StepUniverse ==
    [LowerBound : BoundValues,
     UpperBound : {Unset} \cup {Some(u) : u \in BoundValues},
     Count : StepCounts,
     Other : {FALSE}]
    \cup {[LowerBound |-> 0, UpperBound |-> Unset, Count |-> 1, Other |-> TRUE]}

\* keyisset("UpperBound", step_def): the key is present and its value is truthy.
keyisset_UpperBound(step_def) ==
    step_def.UpperBound # Unset /\ step_def.UpperBound[1] # 0

\* Truth value of pre_upper (0 and None are false).
truthy(pre_upper) == pre_upper # Unset /\ pre_upper[1] # 0

\* validate_steps_definition: "ok", or the exception raised by the first
\* offending step in input order.
RECURSIVE validate_steps_definition(_)
validate_steps_definition(ss) ==
    IF ss = <<>> THEN "ok"
    ELSE LET step_def == Head(ss)
         IN  IF step_def.Other THEN "KeyError"
             ELSE IF /\ keyisset_UpperBound(step_def)
                     /\ step_def.LowerBound >= step_def.UpperBound[1]
                  THEN "ValueError"
                  ELSE validate_steps_definition(Tail(ss))

\* sorted(unordered, key=LowerBound): stable, ascending.
RECURSIVE insert_sorted(_, _)
insert_sorted(sorted, x) ==
    IF sorted = <<>> THEN <<x>>
    ELSE IF Head(sorted).LowerBound <= x.LowerBound
         THEN <<Head(sorted)>> \o insert_sorted(Tail(sorted), x)
         ELSE <<x>> \o sorted

RECURSIVE sort_by_lower(_, _)
sort_by_lower(acc, ss) ==
    IF ss = <<>> THEN acc
    ELSE sort_by_lower(insert_sorted(acc, Head(ss)), Tail(ss))

sorted_steps(unordered) == sort_by_lower(<<>>, unordered)

\* Mutant: MaxCapacity is aligned on the first ordered step's Count.
adjust_max_capacity_first(ordered, with_target, capacity) ==
    IF with_target /\ ordered[1].Count > capacity
    THEN ordered[1].Count
    ELSE capacity

\* generate_scaling_out_steps, lines 102-107: MaxCapacity follows the Count
\* of the last ordered step when that Count is greater.
adjust_max_capacity(ordered, with_target, capacity) ==
    IF with_target /\ ordered[Len(ordered)].Count > capacity
    THEN ordered[Len(ordered)].Count
    ELSE capacity

StepAdjustment(step_def) ==
    [MetricIntervalLowerBound |-> step_def.LowerBound,
     MetricIntervalUpperBound |->
        IF keyisset_UpperBound(step_def) THEN step_def.UpperBound ELSE Unset,
     ScalingAdjustment |-> step_def.Count]

\* define_step_adjustment: the steps built, or the ValueError of the first
\* step whose lower bound is below the previous upper bound.
RECURSIVE define_step_adjustment(_, _, _)
define_step_adjustment(pre_upper, ordered, acc) ==
    IF ordered = <<>> THEN [result |-> "ok", cfn |-> acc]
    ELSE LET step_def == Head(ordered)
         IN  IF truthy(pre_upper) /\ ~(step_def.LowerBound >= pre_upper[1])
             THEN [result |-> "ValueError", cfn |-> acc]
             ELSE define_step_adjustment(
                      IF keyisset_UpperBound(step_def)
                      THEN step_def.UpperBound ELSE Unset,
                      Tail(ordered),
                      Append(acc, StepAdjustment(step_def)))

\* rectify_scaling_steps: the last step loses its upper bound.
rectify_scaling_steps(cfn) ==
    [cfn EXCEPT ![Len(cfn)].MetricIntervalUpperBound = Unset]

InitScaling ==
    /\ PortsIdle
    /\ SortIdle
    /\ FamilyIdle
    /\ ComputeIdle
    /\ ListenerIdle
    /\ ResolverIdle
    /\ PollingIdle
    /\ TrackingIdle
    /\ IngressIdle
    /\ FinalizeIdle
    /\ PlanIdle
    /\ steps \in SeqsUpTo(StepUniverse, MaxSteps) \ {<<>>}
    /\ has_target \in BOOLEAN
    /\ max_capacity_in \in (IF has_target THEN TargetCapacities ELSE {0})
    /\ max_capacity = max_capacity_in
    /\ cfn_steps = <<>>
    /\ scaling_result = "none"

generate_scaling_out_steps ==
    /\ scaling_result = "none"
    /\ steps # <<>>
    /\ LET validation == validate_steps_definition(steps)
           ordered == sorted_steps(steps)
           built == define_step_adjustment(Some(0), ordered, <<>>)
       IN  IF validation # "ok"
           THEN /\ scaling_result' = validation
                /\ UNCHANGED <<max_capacity, cfn_steps>>
           ELSE /\ max_capacity' = adjust_max_capacity(ordered, has_target, max_capacity)
                /\ scaling_result' = built.result
                /\ cfn_steps' = IF built.result = "ok"
                                THEN rectify_scaling_steps(built.cfn)
                                ELSE <<>>
    /\ UNCHANGED <<steps, has_target, max_capacity_in>>
    /\ UNCHANGED <<portsVars, sortVars, familyVars, computeVars, listenerVars, resolverVars, pollingVars, trackingVars, ingressVars, finalizeVars, planVars>>

NextScaling == generate_scaling_out_steps

SpecScaling == InitScaling /\ [][NextScaling]_vars

(* Claims on step scaling *)

\* C4: every accepted step set is emitted in ascending lower-bound order,
\* every non-final step has an upper bound that is at most the next step's
\* lower bound, and the final step has no upper bound.
C4_AcceptedStepsMonotonic ==
    scaling_result = "ok" =>
        /\ \A i \in 1..(Len(cfn_steps) - 1) :
              /\ cfn_steps[i].MetricIntervalLowerBound
                    < cfn_steps[i+1].MetricIntervalLowerBound
              /\ cfn_steps[i].MetricIntervalUpperBound # Unset
              /\ cfn_steps[i].MetricIntervalUpperBound[1]
                    <= cfn_steps[i+1].MetricIntervalLowerBound
        /\ cfn_steps[Len(cfn_steps)].MetricIntervalUpperBound = Unset

\* A step that declares an upper bound at or below its lower bound.
DeclaresEmptyRange(step_def) ==
    step_def.UpperBound # Unset /\ step_def.UpperBound[1] <= step_def.LowerBound

\* After sorting by lower bound, some step starts below the previous upper bound.
OverlapsPrevious(ordered) ==
    \E i \in 2..Len(ordered) :
        /\ ordered[i-1].UpperBound # Unset
        /\ ordered[i].LowerBound < ordered[i-1].UpperBound[1]

\* C5: no step set with an empty-range step, or with a step whose lower
\* bound is below the previous step's upper bound, yields a step list.
C5_InvalidStepsRejected ==
    scaling_result = "ok" =>
        /\ \A i \in 1..Len(steps) : ~DeclaresEmptyRange(steps[i])
        /\ ~OverlapsPrevious(sorted_steps(steps))

\* The step with the highest lower bound (the last declared one on a tie).
TopStep ==
    steps[CHOOSE i \in 1..Len(steps) :
            /\ \A j \in 1..Len(steps) : steps[j].LowerBound <= steps[i].LowerBound
            /\ \A j \in (i+1)..Len(steps) : steps[j].LowerBound < steps[i].LowerBound]

\* C6: on return MaxCapacity is the top step's Count when that Count is
\* greater than the former MaxCapacity and is unchanged otherwise; it is
\* never lowered.
C6_MaxCapacityRaisedToTopCount ==
    /\ has_target => max_capacity >= max_capacity_in
    /\ (scaling_result = "ok" /\ has_target) =>
          max_capacity = (IF TopStep.Count > max_capacity_in
                          THEN TopStep.Count ELSE max_capacity_in)

\* C6 witness: steps [{0,10,count 1},{10,-,count 5}] with max 3 give max 5.
C6_Witness ==
    /\ scaling_result = "ok"
    /\ has_target
    /\ steps = << [LowerBound |-> 0, UpperBound |-> Some(10), Count |-> 1, Other |-> FALSE],
                  [LowerBound |-> 10, UpperBound |-> Unset, Count |-> 5, Other |-> FALSE] >>
    /\ max_capacity_in = 3
    /\ max_capacity = 5

----------------------------------------------------------------------------
(* Secrets / environment sorter *)

MaxEntries == 2

\* Names in alphabetical order.
NameRank == ("DB_HOST" :> 1) @@ ("DB_PASSWORD" :> 2)

\* Entries of a container's Secrets list: Secret objects, or another
\* object (an If, a Ref) which has no Name.
SecretUniverse ==
    { [kind |-> "Secret", Name |-> "DB_HOST", Value |-> "arn1"],
      [kind |-> "Secret", Name |-> "DB_PASSWORD", Value |-> "arn2"],
      [kind |-> "Other", Name |-> "", Value |-> "If"] }

\* Entries of a container's Environment list: Environment objects, or another
\* object (the conditional AWS_DEFAULT_REGION entry).
EnvironmentUniverse ==
    { [kind |-> "Environment", Name |-> "DB_HOST", Value |-> "v1"],
      [kind |-> "Environment", Name |-> "DB_HOST", Value |-> "v2"],
      [kind |-> "Environment", Name |-> "DB_PASSWORD", Value |-> "v1"],
      [kind |-> "Other", Name |-> "", Value |-> "If"] }

\* The container of a managed side-car, which comes first in family.services.
SidecarContainers ==
    { [Secrets |-> <<>>, Environment |-> <<>>],
      [Secrets |-> <<[kind |-> "Secret", Name |-> "DB_HOST", Value |-> "arn1"]>>,
       Environment |-> <<[kind |-> "Environment", Name |-> "DB_HOST", Value |-> "v1"]>>],
      [Secrets |-> <<[kind |-> "Other", Name |-> "", Value |-> "If"]>>,
       Environment |-> <<[kind |-> "Environment", Name |-> "DB_HOST", Value |-> "v1"]>>] }

ServiceContainers ==
    [Secrets : SeqsUpTo(SecretUniverse, MaxEntries),
     Environment : SeqsUpTo(EnvironmentUniverse, MaxEntries)]

\* sorted(entries, key=Name): stable, ascending.
RECURSIVE insert_by_name(_, _)
insert_by_name(sorted, x) ==
    IF sorted = <<>> THEN <<x>>
    ELSE IF NameRank[Head(sorted).Name] <= NameRank[x.Name]
         THEN <<Head(sorted)>> \o insert_by_name(Tail(sorted), x)
         ELSE <<x>> \o sorted

RECURSIVE sort_by_name(_, _)
sort_by_name(acc, entries) ==
    IF entries = <<>> THEN acc
    ELSE sort_by_name(insert_by_name(acc, Head(entries)), Tail(entries))

\* sort_secrets: Secret objects by Name, then the other entries.
sort_secrets(secrets) ==
    IF secrets = <<>> THEN secrets
    ELSE LET strictly_secrets == SelectSeq(secrets, LAMBDA e : e.kind = "Secret")
             non_secret_type == SelectSeq(secrets, LAMBDA e : e.kind # "Secret")
         IN  sort_by_name(<<>>, strictly_secrets) \o non_secret_type

\* Mutant: the overlapping environment variables are not removed.
drop_overlapping_none(sorted_env, secrets_names) == sorted_env

\* sort_env_vars, lines 556-563: pops the variables named like a secret.
drop_overlapping(sorted_env, secrets_names) ==
    SelectSeq(sorted_env, LAMBDA e : e.Name \notin secrets_names)

\* sort_env_vars: "ok" and the new Environment, or the AttributeError raised
\* when reading the Name of an entry of Secrets that is not a Secret.
sort_env_vars(environment, secrets) ==
    LET strictly_env_vars == SelectSeq(environment, LAMBDA e : e.kind = "Environment")
        non_env_vars == SelectSeq(environment, LAMBDA e : e.kind # "Environment")
        sorted_env == sort_by_name(<<>>, strictly_env_vars)
    IN  IF sorted_env # <<>> /\ secrets # <<>>
        THEN IF \E i \in 1..Len(secrets) : secrets[i].kind # "Secret"
             THEN [result |-> "AttributeError", Environment |-> environment]
             ELSE [result |-> "ok",
                   Environment |->
                      drop_overlapping(sorted_env,
                                       {secrets[i].Name : i \in 1..Len(secrets)})
                      \o non_env_vars]
        ELSE [result |-> "ok", Environment |-> sorted_env \o non_env_vars]

\* The body of the loop of sort_secrets_env_vars for one service.
sort_container(c) ==
    LET secrets == IF c.Secrets # <<>> THEN sort_secrets(c.Secrets) ELSE c.Secrets
        env == IF c.Environment # <<>>
               THEN sort_env_vars(c.Environment, secrets)
               ELSE [result |-> "ok", Environment |-> c.Environment]
    IN  [result |-> env.result,
         container |-> [Secrets |-> secrets, Environment |-> env.Environment]]

\* The loop of sort_secrets_env_vars: stops at the first service that raises.
RECURSIVE sort_all(_, _)
sort_all(done, todo) ==
    IF todo = <<>> THEN [result |-> "ok", containers |-> done]
    ELSE LET r == sort_container(Head(todo))
         IN  IF r.result # "ok"
             THEN [result |-> r.result,
                   containers |-> done \o <<r.container>> \o Tail(todo)]
             ELSE sort_all(Append(done, r.container), Tail(todo))

InitSort ==
    /\ PortsIdle
    /\ ScalingIdle
    /\ FamilyIdle
    /\ ComputeIdle
    /\ ListenerIdle
    /\ ResolverIdle
    /\ PollingIdle
    /\ TrackingIdle
    /\ IngressIdle
    /\ FinalizeIdle
    /\ PlanIdle
    /\ containers_in \in {<<sc, c>> : sc \in SidecarContainers, c \in ServiceContainers}
    /\ containers = containers_in
    /\ sort_result = "none"

sort_secrets_env_vars ==
    /\ sort_result = "none"
    /\ containers # <<>>
    /\ LET r == sort_all(<<>>, containers)
       IN  /\ containers' = r.containers
           /\ sort_result' = r.result
    /\ UNCHANGED containers_in
    /\ UNCHANGED <<portsVars, scalingVars, familyVars, computeVars, listenerVars, resolverVars, pollingVars, trackingVars, ingressVars, finalizeVars, planVars>>

NextSort == sort_secrets_env_vars

SpecSort == InitSort /\ [][NextSort]_vars

(* Claims on the secrets / environment sorter *)

Count(seq, e) == Cardinality({i \in 1..Len(seq) : seq[i] = e})

SecretNames(c) == {c.Secrets[i].Name : i \in {j \in 1..Len(c.Secrets) : c.Secrets[j].kind = "Secret"}}

\* C7: after sort_secrets_env_vars no container keeps a named environment
\* value whose name is the name of one of its secrets, and every environment
\* value whose name matches no secret is kept.
C7_SecretPrecedence ==
    sort_result = "ok" =>
        \A k \in 1..Len(containers) :
            /\ \A e \in Range(containers[k].Environment) :
                  e.kind = "Environment" => e.Name \notin SecretNames(containers[k])
            /\ \A e \in Range(containers_in[k].Environment) :
                  (e.kind = "Environment" /\ e.Name \notin SecretNames(containers_in[k]))
                     => Count(containers[k].Environment, e)
                           = Count(containers_in[k].Environment, e)

\* C7 witness: a container had an environment value named like a secret,
\* which is gone, and another one, which is kept.
C7_Witness ==
    /\ sort_result = "ok"
    /\ \E e \in Range(containers_in[2].Environment) :
          /\ e.kind = "Environment"
          /\ e.Name \in SecretNames(containers_in[2])
          /\ e \notin Range(containers[2].Environment)
    /\ \E e \in Range(containers_in[2].Environment) :
          /\ e.kind = "Environment"
          /\ e.Name \notin SecretNames(containers_in[2])
          /\ e \in Range(containers[2].Environment)

----------------------------------------------------------------------------
(* Family composer *)

MaxFamilyCalls == 4

\* Services are known by name; every ComposeService has a container
\* definition, named like the service.
ComposeServiceNames == {"web", "api"}

SidecarNames == {"xray", "cwagent"}

FamilyServiceNames == ComposeServiceNames \cup SidecarNames

\* depends_on of each service.
DependsOn == [n \in FamilyServiceNames |-> IF n = "web" THEN {"api"} ELSE {}]

\* handle_same_task_services_dependencies: a service's priority is 0, raised
\* above the priorities of the services of the family it depends on.
RECURSIVE service_priority(_, _, _)
service_priority(name, members, depth) ==
    LET deps == DependsOn[name] \cap members
    IN  IF deps = {} \/ depth = 0 THEN 0
        ELSE 1 + (CHOOSE m \in {service_priority(d, members, depth - 1) : d \in deps} :
                     \A d \in deps : service_priority(d, members, depth - 1) <= m)

RECURSIVE insert_by_priority(_, _, _)
insert_by_priority(sorted, x, members) ==
    IF sorted = <<>> THEN <<x>>
    ELSE IF service_priority(Head(sorted), members, Cardinality(members))
               <= service_priority(x, members, Cardinality(members))
         THEN <<Head(sorted)>> \o insert_by_priority(Tail(sorted), x, members)
         ELSE <<x>> \o sorted

RECURSIVE sort_by_priority(_, _, _)
sort_by_priority(acc, todo, members) ==
    IF todo = <<>> THEN acc
    ELSE sort_by_priority(insert_by_priority(acc, Head(todo), members), Tail(todo), members)

\* set_update_containers_priority: the new ordered_services.
set_update_containers_priority(services, sidecars) ==
    LET service_configs == services \o sidecars
    IN  sort_by_priority(<<>>, service_configs, Range(service_configs))

\* ComposeFamily.services
family_services(sidecars, ordered) == sidecars \o ordered

\* Mutant: the side-car is looked up among the ordered services.
sidecar_already_set_in_ordered(name, sidecars, ordered) ==
    ordered # <<>> /\ name \in Range(ordered)

\* add_managed_sidecar, lines 397-399: a side-car of that name is already managed.
sidecar_already_set(name, sidecars, ordered) ==
    sidecars # <<>> /\ name \in Range(sidecars)

\* ContainerDefinitions.append(service.container_definition) when the task
\* definition is set.
append_container_definition(td, name) ==
    IF td # <<>> THEN <<Append(td[1], name)>> ELSE td

InitFamily ==
    /\ PortsIdle
    /\ ScalingIdle
    /\ SortIdle
    /\ ComputeIdle
    /\ ListenerIdle
    /\ ResolverIdle
    /\ PollingIdle
    /\ TrackingIdle
    /\ IngressIdle
    /\ FinalizeIdle
    /\ PlanIdle
    /\ compose_services \in {<<n>> : n \in ComposeServiceNames}
    /\ ordered_services = compose_services
    /\ managed_sidecars = <<>>
    /\ task_definition = <<>>
    /\ task_compute = FALSE
    /\ family_call = NoCall
    /\ family_calls = 0
    /\ family_result = "ok"

FamilyCallable ==
    /\ family_result = "ok"
    /\ family_calls < MaxFamilyCalls
    /\ family_calls' = family_calls + 1
    /\ UNCHANGED <<portsVars, scalingVars, sortVars, computeVars, listenerVars, resolverVars, pollingVars, trackingVars, ingressVars, finalizeVars, planVars>>

init_family ==
    /\ FamilyCallable
    /\ family_call' = [op |-> "init_family", name |-> "", skipped |-> FALSE]
    /\ ordered_services' = set_update_containers_priority(compose_services, managed_sidecars)
    /\ task_compute' = TRUE
    /\ family_result' = "ok"
    /\ UNCHANGED <<compose_services, managed_sidecars, task_definition>>

set_task_definition ==
    /\ FamilyCallable
    /\ family_call' = [op |-> "set_task_definition", name |-> "", skipped |-> FALSE]
    /\ IF task_compute
       THEN /\ task_definition' = <<family_services(managed_sidecars, ordered_services)>>
            /\ family_result' = "ok"
       ELSE /\ family_result' = "AttributeError"
            /\ UNCHANGED task_definition
    /\ UNCHANGED <<compose_services, ordered_services, managed_sidecars, task_compute>>

add_service(service) ==
    /\ FamilyCallable
    /\ family_call' = [op |-> "add_service", name |-> service, skipped |-> FALSE]
    /\ compose_services' = Append(compose_services, service)
    /\ ordered_services' = set_update_containers_priority(compose_services', managed_sidecars)
    /\ task_definition' = append_container_definition(task_definition, service)
    /\ family_result' = "ok"
    /\ UNCHANGED <<managed_sidecars, task_compute>>

add_managed_sidecar(service) ==
    /\ FamilyCallable
    /\ IF sidecar_already_set(service, managed_sidecars, ordered_services)
       THEN /\ family_call' = [op |-> "add_managed_sidecar", name |-> service,
                               skipped |-> TRUE]
            /\ family_result' = "ok"
            /\ UNCHANGED <<managed_sidecars, task_definition>>
       ELSE /\ family_call' = [op |-> "add_managed_sidecar", name |-> service,
                               skipped |-> FALSE]
            /\ managed_sidecars' = Append(managed_sidecars, service)
            /\ task_definition' = append_container_definition(task_definition, service)
            /\ family_result' = IF task_compute THEN "ok" ELSE "AttributeError"
    /\ UNCHANGED <<compose_services, ordered_services, task_compute>>

NextFamily ==
    \/ init_family
    \/ set_task_definition
    \/ \E service \in ComposeServiceNames : add_service(service)
    \/ \E service \in FamilyServiceNames : add_managed_sidecar(service)

SpecFamily == InitFamily /\ [][NextFamily]_vars

(* Claims on the family composer *)

\* C8: add_managed_sidecar with the name of a side-car already in
\* managed_sidecars raises nothing and leaves managed_sidecars, the
\* ContainerDefinitions and the ordered services unchanged; every name
\* appears once in managed_sidecars.
C8_ReAddedSidecarIsNoOp ==
    /\ [][(/\ family_call'.op = "add_managed_sidecar"
           /\ family_calls' = family_calls + 1
           /\ family_call'.name \in Range(managed_sidecars))
          => (/\ managed_sidecars' = managed_sidecars
              /\ task_definition' = task_definition
              /\ ordered_services' = ordered_services
              /\ family_result' = "ok")]_vars
    /\ [](\A i, j \in 1..Len(managed_sidecars) :
             managed_sidecars[i] = managed_sidecars[j] => i = j)

\* C8 witness: a side-car was injected a second time, with a task definition set.
C8_Witness ==
    /\ family_call.op = "add_managed_sidecar"
    /\ family_call.skipped
    /\ family_call.name \in Range(managed_sidecars)
    /\ task_definition # <<>>

----------------------------------------------------------------------------
(* Launch-type resolver *)

\* ecs_cluster.FARGATE_PROVIDERS: the serverless-only capacity providers.
FARGATE_PROVIDERS == {"FARGATE", "FARGATE_SPOT"}

ProviderNames == {"FARGATE", "FARGATE_SPOT", "asg-provider"}

FamilyLaunchTypes == {None, "FARGATE", "EC2", "EXTERNAL"}

PlatformOverrides == {None, "FARGATE", "EC2"}

\* ServiceCompute.set_update_launch_type: the family launch type merged from
\* its services; merging the same services again gives the same value.
set_update_launch_type(family_launch_type) == family_launch_type

\* ServiceCompute.set_update_capacity_providers: the family providers merged
\* from its services; merging the same services again gives the same value.
set_update_capacity_providers(family_providers) == family_providers

\* Mutant: one family provider known to the cluster is enough.
validate_capacity_providers_any(family_providers, cluster_providers) ==
    IF family_providers = {} /\ cluster_providers = {} THEN "ok"
    ELSE IF cluster_providers = {} THEN "ok"
    ELSE IF ~(\A cap_name \in family_providers : cap_name \in FARGATE_PROVIDERS)
         THEN "ValueError"
         ELSE IF ~(\E provider \in family_providers : provider \in cluster_providers)
              THEN "ValueError"
              ELSE "ok"

\* validate_capacity_providers: "ok", or the ValueError raised.
validate_capacity_providers(family_providers, cluster_providers) ==
    IF family_providers = {} /\ cluster_providers = {} THEN "ok"
    ELSE IF cluster_providers = {} THEN "ok"
    ELSE IF ~(\A cap_name \in family_providers : cap_name \in FARGATE_PROVIDERS)
         THEN "ValueError"
         ELSE IF ~(\A provider \in family_providers : provider \in cluster_providers)
              THEN "ValueError"
              ELSE "ok"

\* set_launch_type_from_cluster_and_service
set_launch_type_from_cluster_and_service(family_providers, cluster_providers, lt) ==
    LET family_uses_fargate_only ==
            \A provider \in family_providers : provider \in FARGATE_PROVIDERS
        cluster_uses_fargate_only ==
            \A provider \in cluster_providers : provider \in FARGATE_PROVIDERS
    IN  IF ~(\A provider \in family_providers : provider \in cluster_providers)
        THEN [result |-> "AttributeError", launch_type |-> lt]
        ELSE IF family_uses_fargate_only /\ cluster_uses_fargate_only
             THEN [result |-> "ok", launch_type |-> "FARGATE_PROVIDERS"]
             ELSE [result |-> "ok", launch_type |-> "SERVICE_MODE"]

\* set_launch_type_from_cluster_only
set_launch_type_from_cluster_only(cluster_providers, default_providers) ==
    IF \/ \E provider \in default_providers : provider \in {"FARGATE", "FARGATE_SPOT"}
       \/ \A provider \in {"FARGATE", "FARGATE_SPOT"} : provider \in cluster_providers
    THEN [result |-> "ok", launch_type |-> "FARGATE_PROVIDERS"]
    ELSE [result |-> "ok", launch_type |-> "CLUSTER_MODE"]

\* set_service_launch_type
set_service_launch_type(lt, family_providers, cluster_providers, default_providers) ==
    IF lt \in {"EXTERNAL", "EC2"} THEN [result |-> "ok", launch_type |-> lt]
    ELSE IF family_providers # {} /\ cluster_providers # {}
         THEN set_launch_type_from_cluster_and_service(
                  family_providers, cluster_providers, lt)
         ELSE IF family_providers = {} /\ cluster_providers # {}
              THEN set_launch_type_from_cluster_only(cluster_providers, default_providers)
              ELSE [result |-> "ok", launch_type |-> lt]

\* Mutant: no launch type is taken for EXTERNAL.
launch_type_is_external_never(family_launch_type) == FALSE

\* validate_compute_configuration_for_task, lines 67-70
launch_type_is_external(family_launch_type) ==
    family_launch_type # None /\ family_launch_type = "EXTERNAL"

InitCompute ==
    /\ PortsIdle
    /\ ScalingIdle
    /\ SortIdle
    /\ FamilyIdle
    /\ ListenerIdle
    /\ ResolverIdle
    /\ PollingIdle
    /\ TrackingIdle
    /\ IngressIdle
    /\ FinalizeIdle
    /\ PlanIdle
    /\ launch_type_in \in FamilyLaunchTypes
    /\ launch_type = launch_type_in
    /\ ecs_capacity_providers \in SUBSET ProviderNames
    /\ capacity_providers \in SUBSET ProviderNames
    /\ default_strategy_providers \in SUBSET capacity_providers
    /\ platform_override \in PlatformOverrides
    /\ service_definition \in {<<>>, <<"strategy">>}
    /\ compute_result = "none"

validate_compute_configuration_for_task ==
    /\ compute_result = "none"
    /\ IF launch_type_is_external(launch_type)
       THEN /\ compute_result' = "ok"
            /\ UNCHANGED <<launch_type, ecs_capacity_providers, service_definition>>
       ELSE IF platform_override # None
       THEN /\ launch_type' = platform_override
            /\ service_definition' =
                  IF service_definition # <<>> THEN <<"NoValue">> ELSE service_definition
            /\ compute_result' = "ok"
            /\ UNCHANGED ecs_capacity_providers
       ELSE LET lt == set_update_launch_type(launch_type)
                caps == set_update_capacity_providers(ecs_capacity_providers)
                valid == validate_capacity_providers(caps, capacity_providers)
                set == set_service_launch_type(lt, caps, capacity_providers,
                                               default_strategy_providers)
            IN  /\ ecs_capacity_providers' = caps
                /\ UNCHANGED service_definition
                /\ IF valid # "ok"
                   THEN /\ compute_result' = valid
                        /\ launch_type' = lt
                   ELSE IF caps = {} /\ lt \in {"EC2", "EXTERNAL"}
                   THEN /\ compute_result' = "ok"
                        /\ launch_type' = lt
                   ELSE /\ compute_result' = set.result
                        /\ launch_type' = set.launch_type
    /\ UNCHANGED <<launch_type_in, capacity_providers, default_strategy_providers,
                   platform_override>>
    /\ UNCHANGED <<portsVars, scalingVars, sortVars, familyVars, listenerVars, resolverVars, pollingVars, trackingVars, ingressVars, finalizeVars, planVars>>

NextCompute == validate_compute_configuration_for_task

SpecCompute == InitCompute /\ [][NextCompute]_vars

(* Claims on the launch-type resolver *)

CapacityProviderModes == {"FARGATE_PROVIDERS", "SERVICE_MODE", "CLUSTER_MODE"}

\* C9: with no platform override, a family that is not EXTERNAL, and providers
\* declared by both the family and the cluster, a family provider missing from
\* the cluster's providers makes validate_compute_configuration_for_task raise
\* the configuration error, and the launch type is set to no capacity-provider
\* mode.
C9_UnknownProviderRejected ==
    (/\ compute_result # "none"
     /\ platform_override = None
     /\ launch_type_in # "EXTERNAL"
     /\ ecs_capacity_providers # {}
     /\ capacity_providers # {}
     /\ ~(ecs_capacity_providers \subseteq capacity_providers))
    => /\ compute_result = "ValueError"
       /\ launch_type \notin CapacityProviderModes
       /\ launch_type = launch_type_in

\* C9 witness: cluster [FARGATE], family [FARGATE, FARGATE_SPOT] was rejected.
C9_Witness ==
    /\ compute_result = "ValueError"
    /\ platform_override = None
    /\ launch_type_in = None
    /\ capacity_providers = {"FARGATE"}
    /\ ecs_capacity_providers = {"FARGATE", "FARGATE_SPOT"}

----------------------------------------------------------------------------
(* Load-balancer listener: default actions and rules *)

MaxTargets == 2

\* random.randint(1, 100)
MinRuleOffset == 1
MaxRuleOffset == 100

\* The names of the declared targets, by position in Targets.
TargetNames == <<"app:web", "app:api", "jobs:worker", "jobs:cron">>

\* What a declared target may carry beside its name: its access string, user
\* Conditions, an authentication configuration and the target group bound to
\* it (target_arn).
TargetKinds ==
    { [access |-> Unset,        Conditions |-> FALSE, auth |-> "none",    target_arn |-> TRUE],
      [access |-> Some("/"),    Conditions |-> FALSE, auth |-> "none",    target_arn |-> TRUE],
      [access |-> Some("/api"), Conditions |-> FALSE, auth |-> "none",    target_arn |-> TRUE],
      [access |-> Unset,        Conditions |-> TRUE,  auth |-> "none",    target_arn |-> TRUE],
      [access |-> Some("/api"), Conditions |-> FALSE, auth |-> "cognito", target_arn |-> TRUE],
      [access |-> Unset,        Conditions |-> FALSE, auth |-> "oidc",    target_arn |-> TRUE],
      [access |-> Some("/"),    Conditions |-> FALSE, auth |-> "cognito", target_arn |-> TRUE],
      [access |-> Unset,        Conditions |-> FALSE, auth |-> "none",    target_arn |-> FALSE] }

Target(i, kind) ==
    [name |-> TargetNames[i], access |-> kind.access, Conditions |-> kind.Conditions,
     auth |-> kind.auth, target_arn |-> kind.target_arn]

TargetLists ==
    { [i \in 1..Len(kinds) |-> Target(i, kinds[i])] : kinds \in SeqsUpTo(TargetKinds, MaxTargets) }

\* The DefaultActions a listener definition may declare.
DeclaredDefaultActions ==
    { <<>>,
      <<[source |-> "Redirect", value |-> "HTTP_TO_HTTPS"]>>,
      <<[source |-> "Forward", value |-> "app:web"]>> }

forward_action(target_def, order) ==
    [Type |-> "forward", TargetGroupArn |-> target_def.name, Order |-> order]

authenticate_action(target_def) ==
    [Type |-> IF target_def.auth = "cognito"
              THEN "authenticate-cognito" ELSE "authenticate-oidc",
     TargetGroupArn |-> "", Order |-> 1]

\* tea_pot(True)
tea_pot == [Type |-> "fixed-response", TargetGroupArn |-> "", Order |-> 50000]

\* http_to_https_default() and tea_pot() as predefined redirects (no Order).
predefined_redirect(action_name) ==
    [Type |-> IF action_name = "HTTP_TO_HTTPS" THEN "redirect" ELSE "fixed-response",
     TargetGroupArn |-> "", Order |-> 0]

\* Mutant: the forward comes first and the authentication second.
define_actions_forward_first(protocol, certificates, target_def) ==
    IF ~target_def.target_arn THEN [result |-> "KeyError", actions |-> <<>>]
    ELSE IF target_def.auth # "none"
         THEN IF certificates = "empty" \/ protocol # "HTTPS"
              THEN [result |-> "AttributeError", actions |-> <<>>]
              ELSE [result |-> "ok",
                    actions |-> <<forward_action(target_def, 1),
                                  [authenticate_action(target_def) EXCEPT !.Order = 2]>>]
         ELSE [result |-> "ok", actions |-> <<forward_action(target_def, 1)>>]

\* Mutant: the authentication is accepted whatever the listener's protocol
\* and certificates.
define_actions_any_protocol(protocol, certificates, target_def) ==
    IF ~target_def.target_arn THEN [result |-> "KeyError", actions |-> <<>>]
    ELSE IF target_def.auth # "none"
         THEN [result |-> "ok",
               actions |-> <<authenticate_action(target_def),
                             forward_action(target_def, 2)>>]
         ELSE [result |-> "ok", actions |-> <<forward_action(target_def, 1)>>]

\* define_actions: the actions for a target, or the exception raised.
define_actions(protocol, certificates, target_def) ==
    IF ~target_def.target_arn THEN [result |-> "KeyError", actions |-> <<>>]
    ELSE IF target_def.auth # "none"
         THEN IF certificates = "empty"
              THEN [result |-> "AttributeError", actions |-> <<>>]
              ELSE IF protocol # "HTTPS"
                   THEN [result |-> "AttributeError", actions |-> <<>>]
                   ELSE [result |-> "ok",
                         actions |-> <<authenticate_action(target_def),
                                       forward_action(target_def, 2)>>]
         ELSE [result |-> "ok", actions |-> <<forward_action(target_def, 1)>>]

\* handle_string_condition_format on the access strings of the model: "/"
\* matches none of the patterns, a longer path gives a path-pattern condition.
handle_string_condition_format(access_string) ==
    IF access_string = "/"
    THEN [result |-> "ValueError", conditions |-> <<>>]
    ELSE [result |-> "ok", conditions |-> <<[Field |-> "path-pattern", Value |-> access_string]>>]

\* define_target_conditions
define_target_conditions(definition) ==
    IF definition.Conditions
    THEN [result |-> "ok", conditions |-> <<[Field |-> "user-defined", Value |-> definition.name]>>]
    ELSE IF definition.access # Unset
         THEN handle_string_condition_format(definition.access[1])
         ELSE [result |-> "ok", conditions |-> <<>>]

\* Mutant: the ordinal index is left out of the priority.
rule_priority_no_count(count, offset) == 1 + offset

\* define_listener_rules_actions, line 389: priority = count + 1 + offset
rule_priority(count, offset) == count + 1 + offset

\* define_listener_rules_actions: one rule per left service, in order, or the
\* exception raised when building the first rule that fails.
RECURSIVE define_listener_rules_actions(_, _, _, _, _, _)
define_listener_rules_actions(protocol, certificates, left_services, count, offset, rules) ==
    IF left_services = <<>> THEN [result |-> "ok", rules |-> rules]
    ELSE LET service_def == Head(left_services)
             priority == rule_priority(count, offset)
             actions == define_actions(protocol, certificates, service_def)
             conditions == define_target_conditions(service_def)
         IN  IF actions.result # "ok" THEN [result |-> actions.result, rules |-> <<>>]
             ELSE IF conditions.result # "ok"
                  THEN [result |-> conditions.result, rules |-> <<>>]
                  ELSE define_listener_rules_actions(
                           protocol, certificates, Tail(left_services), count + 1, offset,
                           Append(rules, [name |-> service_def.name,
                                          count |-> count,
                                          Priority |-> priority,
                                          Actions |-> actions.actions,
                                          Conditions |-> conditions.conditions]))

\* Mutant: the first service is taken as the default whatever its access.
first_service(services) == 1

\* The position of the first service whose access is "/", 0 when there is none.
first_root_service(services) ==
    IF \E i \in 1..Len(services) : services[i].access = Some("/")
    THEN CHOOSE i \in 1..Len(services) :
            /\ services[i].access = Some("/")
            /\ \A j \in 1..(i-1) : services[j].access # Some("/")
    ELSE 0

remove_at(seq, i) == SubSeq(seq, 1, i - 1) \o SubSeq(seq, i + 1, Len(seq))

\* handle_non_default_services: the new DefaultActions and the rules, or the
\* exception raised (DefaultActions keeps what was added before the raise).
handle_non_default_services(protocol, certificates, services, current, offset) ==
    LET root == first_root_service(services)
        left_services == IF root = 0 THEN services ELSE remove_at(services, root)
        default == IF root = 0
                   THEN [result |-> "ok", actions |-> <<tea_pot>>]
                   ELSE define_actions(protocol, certificates, services[root])
        rules == define_listener_rules_actions(
                     protocol, certificates, left_services, 0, offset, <<>>)
    IN  IF default.result # "ok"
        THEN [result |-> default.result, DefaultActions |-> current, rules |-> <<>>]
        ELSE [result |-> rules.result,
              DefaultActions |-> current \o default.actions,
              rules |-> rules.rules]

\* handle_default_actions: the declared default actions, each inserted first.
RECURSIVE handle_default_actions(_, _)
handle_default_actions(declared, current) ==
    IF declared = <<>> THEN [result |-> "ok", DefaultActions |-> current, rules |-> <<>>]
    ELSE LET action_def == Head(declared)
         IN  IF action_def.source # "Redirect"
             THEN [result |-> "KeyError", DefaultActions |-> current, rules |-> <<>>]
             ELSE IF action_def.value \notin {"HTTP_TO_HTTPS", "TEA_POT"}
                  THEN [result |-> "ValueError", DefaultActions |-> current, rules |-> <<>>]
                  ELSE handle_default_actions(
                           Tail(declared),
                           <<predefined_redirect(action_def.value)>> \o current)

\* Whether define_default_actions reaches define_listener_rules_actions.
draws_offset ==
    /\ default_actions = <<>>
    /\ \/ Len(listener_services) = 1 /\ listener_services[1].Conditions
       \/ Len(listener_services) > 1 /\ lb_type # "network"

\* The branches of define_default_actions, for a drawn offset.
default_actions_outcome(offset) ==
    IF default_actions = <<>> /\ listener_services = <<>>
    THEN [result |-> "ok", DefaultActions |-> DefaultActions, rules |-> <<>>]
    ELSE IF default_actions # <<>>
    THEN handle_default_actions(default_actions, DefaultActions)
    ELSE IF Len(listener_services) = 1
    THEN IF ~listener_services[1].Conditions
         THEN LET actions == define_actions(Protocol, Certificates, listener_services[1])
              IN  IF actions.result # "ok"
                  THEN [result |-> actions.result, DefaultActions |-> DefaultActions,
                        rules |-> <<>>]
                  ELSE [result |-> "ok", DefaultActions |-> actions.actions, rules |-> <<>>]
         ELSE LET rules == define_listener_rules_actions(
                               Protocol, Certificates, listener_services, 0, offset, <<>>)
              IN  [result |-> rules.result, DefaultActions |-> <<tea_pot>>,
                   rules |-> rules.rules]
    ELSE IF lb_type = "network"
    THEN [result |-> "ValueError", DefaultActions |-> DefaultActions, rules |-> <<>>]
    ELSE handle_non_default_services(
             Protocol, Certificates, listener_services, DefaultActions, offset)

InitListener ==
    /\ PortsIdle
    /\ ScalingIdle
    /\ SortIdle
    /\ FamilyIdle
    /\ ComputeIdle
    /\ ResolverIdle
    /\ PollingIdle
    /\ TrackingIdle
    /\ IngressIdle
    /\ FinalizeIdle
    /\ PlanIdle
    /\ listener_services \in TargetLists
    /\ default_actions \in DeclaredDefaultActions
    /\ Protocol \in {"HTTP", "HTTPS"}
    /\ Certificates \in {"absent", "empty", "defined"}
    /\ lb_type \in {"application", "network"}
    /\ DefaultActions = <<>>
    /\ template_rules = <<>>
    /\ listener_result = "none"

define_default_actions ==
    /\ listener_result = "none"
    /\ \E offset \in (IF draws_offset THEN MinRuleOffset..MaxRuleOffset ELSE {MinRuleOffset}) :
          LET out == default_actions_outcome(offset)
          IN  /\ listener_result' = out.result
              /\ DefaultActions' = out.DefaultActions
              /\ template_rules' =
                    IF out.result = "ok" /\ out.rules # <<>> /\ lb_type = "application"
                    THEN template_rules \o out.rules
                    ELSE template_rules
    /\ UNCHANGED <<listener_services, default_actions, Protocol, Certificates, lb_type>>
    /\ UNCHANGED <<portsVars, scalingVars, sortVars, familyVars, computeVars, resolverVars, pollingVars, trackingVars, ingressVars, finalizeVars, planVars>>

NextListener == define_default_actions

SpecListener == InitListener /\ [][NextListener]_vars

(* Claims on the listener *)

\* A listener with no declared default actions and one target without Conditions.
SingleUnconditionalTarget ==
    /\ default_actions = <<>>
    /\ Len(listener_services) = 1
    /\ ~listener_services[1].Conditions

\* C10 (as stated): for a listener with no explicit default actions and exactly
\* one target without routing condition, the forward to that target is the
\* only default action and no conditional rule is added.
C10_SoleForwardDefault ==
    (SingleUnconditionalTarget /\ listener_result = "ok")
    => /\ DefaultActions = <<forward_action(listener_services[1], 1)>>
       /\ template_rules = <<>>

\* C10 (amended): for such a listener, when define_default_actions returns the
\* default actions are the forward to that target alone when the target
\* declares no authentication, and the authentication action (order 1)
\* followed by the forward (order 2), on an HTTPS listener, when it does; no
\* conditional rule is added; when it raises, no default action is set.
C10_DefaultIsTargetActions ==
    (SingleUnconditionalTarget /\ listener_result # "none")
    => /\ template_rules = <<>>
       /\ (listener_result = "ok" /\ listener_services[1].auth = "none")
             => DefaultActions = <<forward_action(listener_services[1], 1)>>
       /\ (listener_result = "ok" /\ listener_services[1].auth # "none")
             => /\ Protocol = "HTTPS"
                /\ DefaultActions = <<authenticate_action(listener_services[1]),
                                      forward_action(listener_services[1], 2)>>
       /\ listener_result # "ok" => DefaultActions = <<>>

\* C10 witness: a single target without Conditions and with authentication
\* became the default of an HTTPS listener.
C10_Witness ==
    /\ SingleUnconditionalTarget
    /\ listener_result = "ok"
    /\ listener_services[1].auth = "cognito"
    /\ Len(DefaultActions) = 2

\* An application load balancer listener with no declared default actions and
\* at least two targets.
SeveralTargetsOnAlb ==
    /\ default_actions = <<>>
    /\ Len(listener_services) >= 2
    /\ lb_type = "application"

\* The positions of the targets whose access is "/".
RootTargets == {i \in 1..Len(listener_services) : listener_services[i].access = Some("/")}

\* The names of the targets the template holds a rule for, in rule order.
RuleTargets == [i \in 1..Len(template_rules) |-> template_rules[i].name]

\* The names of the declared targets but the one at position r (0: all of them).
TargetsBut(r) ==
    LET names == [i \in 1..Len(listener_services) |-> listener_services[i].name]
    IN  SelectSeq(names, LAMBDA n : r = 0 \/ n # listener_services[r].name)

C14_RulePrioritiesDistinct ==
    /\ \E offset \in MinRuleOffset..MaxRuleOffset :
          \A i \in 1..Len(template_rules) :
              /\ template_rules[i].count = i - 1
              /\ template_rules[i].Priority = offset + (i - 1) + 1
    /\ \A i, j \in 1..Len(template_rules) :
          template_rules[i].Priority = template_rules[j].Priority => i = j

\* C14 witness: two rules were synthesized with the highest offset.
C14_Witness ==
    /\ listener_result = "ok"
    /\ Len(template_rules) = 2
    /\ template_rules[1].Priority = MaxRuleOffset + 1
    /\ template_rules[2].Priority = MaxRuleOffset + 2

----------------------------------------------------------------------------
(* Listener target resolution *)

MaxListenerTargets == 2

MaxFamiliesTargets == 2

\* A ComposeTargetGroup: its family's name, its service's name and its port.
ComposeTargetGroup(family, service, port) ==
    [family |-> family, service |-> service, port |-> port]

\* The target group a listener target was bound to by
\* map_target_group_to_listener before the services are mapped.
MergedTargetGroup == ComposeTargetGroup("", "merged", 0)

\* The families of lb.families_targets, each with its target_groups.
FamilyUniverse ==
    { [name |-> "app",
       target_groups |-> <<ComposeTargetGroup("app", "web", 80)>>],
      [name |-> "app",
       target_groups |-> <<ComposeTargetGroup("app", "web", 80),
                           ComposeTargetGroup("app", "web", 8080)>>],
      [name |-> "app",
       target_groups |-> <<ComposeTargetGroup("app", "web", 8080),
                           ComposeTargetGroup("app", "api", 80)>>],
      [name |-> "jobs",
       target_groups |-> <<ComposeTargetGroup("jobs", "worker", 80)>>] }

\* lb.families_targets: one entry per target of a family; the entries of one
\* family are that same family.
FamiliesTargets ==
    { ft \in SeqsUpTo(FamilyUniverse, MaxFamiliesTargets) :
        \A i, j \in 1..Len(ft) : ft[i].name = ft[j].name => ft[i] = ft[j] }

\* The names the Targets of a listener carry in the model.
ListenerTargetNames == {"app:web", "app:web:8080", "app:api", "jobs:worker:80", "merged"}

\* LISTENER_TARGET_RE.match(name): the family, container and port groups of a
\* family:container[:port] reference, Unset when the name is no reference.
LISTENER_TARGET_RE_match(name) ==
    CASE name = "app:web" ->
            Some([family |-> "app", container |-> "web", port |-> Unset])
      [] name = "app:web:8080" ->
            Some([family |-> "app", container |-> "web", port |-> Some(8080)])
      [] name = "app:api" ->
            Some([family |-> "app", container |-> "api", port |-> Unset])
      [] name = "jobs:worker:80" ->
            Some([family |-> "jobs", container |-> "worker", port |-> Some(80)])
      [] OTHER -> Unset

\* The Targets a listener may declare: unbound, or, for a name that is the
\* name of a merged target group, already bound to it.
ListenerTargetDefs ==
    { [name |-> n, target_arn |-> Unset] : n \in ListenerTargetNames }
    \cup { [name |-> "merged", target_arn |-> Some(MergedTargetGroup)] }

\* The keys of lb.services, a dictionary.
LbServicesKeys ==
    { keys \in SeqsUpTo({"app:web", "app:api"}, 2) :
        \A i, j \in 1..Len(keys) : keys[i] = keys[j] => i = j }

\* Mutant: the port of the reference is not compared.
match_target_group_any_port(target_group, target_parts) ==
    /\ target_parts.family = target_group.family
    /\ target_parts.container = target_group.service

\* match_target_group_to_listener_target: whether the target group is the one
\* the reference names.
match_target_group_to_listener_target(target_group, target_parts) ==
    IF ~(/\ target_parts.family = target_group.family
         /\ target_parts.container = target_group.service)
    THEN FALSE
    ELSE IF target_parts.port # Unset /\ target_parts.port[1] # target_group.port
         THEN FALSE
         ELSE TRUE

\* map_service_target, lines 604-611: target_arn after the loop over the
\* families; within a family the loop over its target groups stops at the
\* first match, the loop over the families goes on.
RECURSIVE map_over_families(_, _, _)
map_over_families(families, target_arn, target_parts) ==
    IF families = <<>> THEN target_arn
    ELSE LET family_target_groups == Head(families).target_groups
             mapped == SelectSeq(family_target_groups,
                                 LAMBDA target_group :
                                     match_target_group_to_listener_target(
                                         target_group, target_parts))
         IN  map_over_families(Tail(families),
                               IF mapped # <<>> THEN Some(Head(mapped)) ELSE target_arn,
                               target_parts)

\* map_service_target: the listener service after the call, or the ValueError
\* raised for a name that is no reference.
map_service_target(families, listener_service_def) ==
    LET target_parts == LISTENER_TARGET_RE_match(listener_service_def.name)
    IN  IF target_parts = Unset
        THEN [result |-> "ValueError", service |-> listener_service_def]
        ELSE [result |-> "ok",
              service |-> [listener_service_def EXCEPT
                             !.target_arn = map_over_families(
                                 families, listener_service_def.target_arn,
                                 target_parts[1])]]

\* validate_duplicate_targets: "ok", or the ValueError raised when lb.services
\* holds a key twice and a listener target has no port.
validate_duplicate_targets(t_targets, services) ==
    LET duplicate_services == Len(t_targets) # Cardinality(Range(t_targets))
    IN  IF duplicate_services
           /\ \E i \in 1..Len(services) :
                 LET parts == LISTENER_TARGET_RE_match(services[i].name)
                 IN  parts = Unset \/ parts[1].port = Unset
        THEN "ValueError"
        ELSE "ok"

\* The loop of map_lb_target_groups_service_to_listener_targets, lines
\* 250-256: the services mapped so far stay mapped when a later one raises.
RECURSIVE map_services(_, _, _)
map_services(families, done, left) ==
    IF left = <<>> THEN [result |-> "ok", services |-> done]
    ELSE LET mapped == map_service_target(families, Head(left))
         IN  IF mapped.result # "ok"
             THEN [result |-> mapped.result, services |-> done \o left]
             ELSE IF mapped.service.target_arn = Unset
                  THEN [result |-> "LookupError",
                        services |-> Append(done, mapped.service) \o Tail(left)]
                  ELSE map_services(families, Append(done, mapped.service), Tail(left))

InitResolver ==
    /\ PortsIdle
    /\ ScalingIdle
    /\ SortIdle
    /\ FamilyIdle
    /\ ComputeIdle
    /\ ListenerIdle
    /\ PollingIdle
    /\ TrackingIdle
    /\ IngressIdle
    /\ FinalizeIdle
    /\ PlanIdle
    /\ families_targets \in FamiliesTargets
    /\ lb_services \in LbServicesKeys
    /\ resolver_services_in \in SeqsUpTo(ListenerTargetDefs, MaxListenerTargets)
    /\ resolver_services = resolver_services_in
    /\ map_result = "none"

map_lb_target_groups_service_to_listener_targets ==
    /\ map_result = "none"
    /\ IF resolver_services = <<>>
       THEN /\ map_result' = "ok"
            /\ UNCHANGED resolver_services
       ELSE IF validate_duplicate_targets(lb_services, resolver_services) # "ok"
            THEN /\ map_result' = validate_duplicate_targets(lb_services, resolver_services)
                 /\ UNCHANGED resolver_services
            ELSE LET mapped == map_services(families_targets, <<>>, resolver_services)
                 IN  /\ map_result' = mapped.result
                     /\ resolver_services' = mapped.services
    /\ UNCHANGED <<families_targets, lb_services, resolver_services_in>>
    /\ UNCHANGED <<portsVars, scalingVars, sortVars, familyVars, computeVars, listenerVars, pollingVars, trackingVars, ingressVars, finalizeVars, planVars>>

NextResolver == map_lb_target_groups_service_to_listener_targets

SpecResolver == InitResolver /\ [][NextResolver]_vars

(* Claims on the target resolution *)

\* The target groups of the known families a reference matches on family
\* name, container name and, when it has one, port.
MatchingGroups(name) ==
    LET parts == LISTENER_TARGET_RE_match(name)
    IN  IF parts = Unset THEN {}
        ELSE { g \in UNION { Range(families_targets[i].target_groups) :
                                i \in 1..Len(families_targets) } :
                 /\ g.family = parts[1].family
                 /\ g.service = parts[1].container
                 /\ parts[1].port # Unset => g.port = parts[1].port[1] }

C13_AmbiguousReferenceIsFatal ==
    (/\ map_result # "none"
     /\ \E i \in 1..Len(resolver_services_in) :
           LET parts == LISTENER_TARGET_RE_match(resolver_services_in[i].name)
           IN  /\ parts # Unset
               /\ parts[1].port = Unset
               /\ Cardinality(MatchingGroups(resolver_services_in[i].name)) > 1)
    => map_result # "ok"

----------------------------------------------------------------------------
(* Further claims on the secrets / environment sorter *)

\* The entries of the given kind come first, in ascending name order, and
\* every other entry comes after them.
NamedFirstAscending(entries, kind) ==
    \A i, j \in 1..Len(entries) :
        i < j =>
            /\ entries[j].kind = kind => entries[i].kind = kind
            /\ (entries[i].kind = kind /\ entries[j].kind = kind)
                  => NameRank[entries[i].Name] <= NameRank[entries[j].Name]

\* The entries that are not of the given kind, in their order in the list.
SpecialEntries(entries, kind) == SelectSeq(entries, LAMBDA e : e.kind # kind)

\* The lists holding the same entries, each as many times, in any order.
Reorderings(entries) ==
    { s \in [1..Len(entries) -> Range(entries)] :
        \A e \in Range(entries) : Count(s, e) = Count(entries, e) }

\* C15: after sort_secrets_env_vars every container has its named secrets in
\* ascending name order followed by the other secret entries in their
\* original order, its named environment values in ascending name order
\* followed by the other entries in their original order, and lists that are
\* the same for every order of the same input entries.
C15_SortedNamedThenSpecial ==
    sort_result # "none" =>
        \A k \in 1..Len(containers) :
            /\ NamedFirstAscending(containers[k].Secrets, "Secret")
            /\ SpecialEntries(containers[k].Secrets, "Secret")
                  = SpecialEntries(containers_in[k].Secrets, "Secret")
            /\ NamedFirstAscending(containers[k].Environment, "Environment")
            /\ SpecialEntries(containers[k].Environment, "Environment")
                  = SpecialEntries(containers_in[k].Environment, "Environment")
            /\ \A secrets \in Reorderings(containers_in[k].Secrets),
                  environment \in Reorderings(containers_in[k].Environment) :
                    sort_container([Secrets |-> secrets, Environment |-> environment]).container
                        = containers[k]

----------------------------------------------------------------------------
(* Change set polling *)

MaxPolls == 10

pending_statuses ==
    {"CREATE_PENDING", "CREATE_IN_PROGRESS", "DELETE_PENDING", "DELETE_IN_PROGRESS",
     "REVIEW_IN_PROGRESS", "UPDATE_ROLLBACK_IN_PROGRESS"}

success_statuses == {"CREATE_COMPLETE", "DELETE_COMPLETE"}

failed_statuses == {"DELETE_FAILED", "FAILED", "UPDATE_ROLLBACK_FAILED"}

\* What describe_change_set may report: the statuses of the three lists and
\* one that is in none of them.
ReportedStatuses ==
    pending_statuses \cup success_statuses \cup failed_statuses \cup {"UPDATE_COMPLETE"}

InitPolling ==
    /\ PortsIdle
    /\ ScalingIdle
    /\ SortIdle
    /\ FamilyIdle
    /\ ComputeIdle
    /\ ListenerIdle
    /\ ResolverIdle
    /\ TrackingIdle
    /\ IngressIdle
    /\ FinalizeIdle
    /\ PlanIdle
    /\ change_set_status = ""
    /\ polls = 0
    /\ poll_result = "none"

\* get_change_set_status is entered: ready = False, status = None.
get_change_set_status ==
    /\ poll_result = "none"
    /\ poll_result' = "polling"
    /\ UNCHANGED <<change_set_status, polls>>
    /\ UNCHANGED <<portsVars, scalingVars, sortVars, familyVars, computeVars, listenerVars,
                   resolverVars, trackingVars, ingressVars, finalizeVars, planVars>>

\* One iteration of the while loop, lines 357-371: the status is fetched;
\* a failed status exits, a pending one sleeps and loops, a success one ends
\* the loop, any other one loops at once.
describe_change_set ==
    /\ poll_result = "polling"
    /\ \E status \in ReportedStatuses :
          /\ change_set_status' = status
          /\ polls' = IF polls < MaxPolls THEN polls + 1 ELSE polls
          /\ poll_result' =
                IF status \in failed_statuses THEN "SystemExit"
                ELSE IF status \in pending_statuses THEN "polling"
                ELSE IF status \in success_statuses THEN "returned"
                ELSE "polling"
    /\ UNCHANGED <<portsVars, scalingVars, sortVars, familyVars, computeVars, listenerVars,
                   resolverVars, trackingVars, ingressVars, finalizeVars, planVars>>

NextPolling ==
    \/ get_change_set_status
    \/ describe_change_set

\* The loop keeps running for as long as it has not ended.
SpecPolling == InitPolling /\ [][NextPolling]_vars /\ WF_vars(NextPolling)

(* Claims on the change set polling *)

\* C16: whatever statuses the remote API reports, get_change_set_status ends,
\* by returning or by aborting.
C16_PollingEnds == <>(poll_result \in {"returned", "SystemExit"})

----------------------------------------------------------------------------
(* Further claims on the launch-type resolver *)

\* C17: a family that is EXTERNAL on entry is EXTERNAL afterwards, whatever
\* the cluster declares; its CapacityProviderStrategy and its providers are
\* not modified and no error is raised.
C17_ExternalIsTerminal ==
    (compute_result # "none" /\ launch_type_in = "EXTERNAL")
    => /\ launch_type = "EXTERNAL"
       /\ service_definition # <<"NoValue">>
       /\ compute_result = "ok"

\* C17 witness: an EXTERNAL family went through a cluster with a platform
\* override and providers the family does not know.
C17_Witness ==
    /\ compute_result = "ok"
    /\ launch_type_in = "EXTERNAL"
    /\ launch_type = "EXTERNAL"
    /\ platform_override = "FARGATE"
    /\ service_definition = <<"strategy">>
    /\ ecs_capacity_providers = {"asg-provider"}
    /\ capacity_providers = {"FARGATE"}

\* No platform override, a family neither EXTERNAL nor EC2.
ResolvedFromProviders ==
    /\ compute_result # "none"
    /\ platform_override = None
    /\ launch_type_in \notin {"EXTERNAL", "EC2"}

\* C18: when the family declares providers that are all among the cluster's,
\* the resolution succeeds, with FARGATE_PROVIDERS when every provider of the
\* family and of the cluster is a Fargate one and SERVICE_MODE otherwise.
C18_FamilyProvidersResolved ==
    (/\ ResolvedFromProviders
     /\ ecs_capacity_providers # {}
     /\ ecs_capacity_providers \subseteq capacity_providers)
    => /\ compute_result = "ok"
       /\ launch_type =
             IF (ecs_capacity_providers \cup capacity_providers) \subseteq FARGATE_PROVIDERS
             THEN "FARGATE_PROVIDERS"
             ELSE "SERVICE_MODE"

\* C19: when the family declares no provider and the cluster declares some,
\* the launch type is FARGATE_PROVIDERS exactly when the cluster's default
\* strategy holds a Fargate provider or all the cluster's providers are
\* Fargate ones, and CLUSTER_MODE otherwise.
C19_ClusterProvidersResolved ==
    (/\ ResolvedFromProviders
     /\ ecs_capacity_providers = {}
     /\ capacity_providers # {})
    => /\ compute_result = "ok"
       /\ launch_type =
             IF \/ default_strategy_providers \cap FARGATE_PROVIDERS # {}
                \/ capacity_providers \subseteq FARGATE_PROVIDERS
             THEN "FARGATE_PROVIDERS"
             ELSE "CLUSTER_MODE"

----------------------------------------------------------------------------
(* Target tracking merge *)

MaxScalingServices == 2

\* The keys of a TargetScaling the services of the model declare.
TargetScalingKeys == {"CpuTarget", "MemoryTarget", "TgtTargetsCount", "DisableScaleIn"}

\* The TargetScaling of a service: each key is absent (Unset) or set.
ServiceTargetScalings ==
    { [CpuTarget |-> cpu, MemoryTarget |-> other[1], TgtTargetsCount |-> other[2],
       DisableScaleIn |-> disable] :
        cpu \in {Unset, Some(50), Some(80)},
        other \in {<<Unset, Unset>>, <<Some(60), Some(10)>>, <<Some(75), Some(100)>>},
        disable \in {Unset, Some(TRUE), Some(FALSE)} }

\* merge_family_services_scaling, lines 285-292: the TargetScaling the merge
\* starts from (its cooldowns are 300 and 60 and no service of the model
\* declares one).
DefaultTargetScaling ==
    [CpuTarget |-> Unset, MemoryTarget |-> Unset, TgtTargetsCount |-> Unset,
     DisableScaleIn |-> Some(FALSE)]

\* keyisset("TargetScaling", config): the key is present and its dictionary
\* is not empty.
keyisset_TargetScaling(new_config) ==
    \E prop \in TargetScalingKeys : new_config[prop] # Unset

\* handle_defined_target_scaling_props: prop is the name of the key, so
\* prop[1] is its second character, which is neither the type int nor the
\* type bool: none of the two branches is taken and the value is kept.
handle_defined_target_scaling_props(prop, current, new_value) ==
    LET prop_1 == "character"
    IN  IF prop_1 = "int"
        THEN Some(IF current[1] <= new_value[1] THEN current[1] ELSE new_value[1])
        ELSE IF prop_1 = "bool" /\ current = Some(FALSE) /\ new_value = Some(TRUE)
             THEN Some(TRUE)
             ELSE current

\* define_new_config: a key present on both sides goes through
\* handle_defined_target_scaling_props, a key present in the new
\* configuration only is copied.
define_new_config(config, new_config) ==
    [prop \in TargetScalingKeys |->
        IF config[prop] # Unset /\ new_config[prop] # Unset
        THEN handle_defined_target_scaling_props(prop, config[prop], new_config[prop])
        ELSE IF config[prop] = Unset /\ new_config[prop] # Unset
             THEN new_config[prop]
             ELSE config[prop]]

\* handle_target_scaling: the family configuration is never empty here.
handle_target_scaling(config, new_config) == define_new_config(config, new_config)

\* merge_family_services_scaling, lines 301-308, for the TargetScaling key.
RECURSIVE merge_target_scaling(_, _)
merge_target_scaling(config, configs) ==
    IF configs = <<>> THEN config
    ELSE merge_target_scaling(
             IF keyisset_TargetScaling(Head(configs))
             THEN handle_target_scaling(config, Head(configs))
             ELSE config,
             Tail(configs))

InitTracking ==
    /\ PortsIdle
    /\ ScalingIdle
    /\ SortIdle
    /\ FamilyIdle
    /\ ComputeIdle
    /\ ListenerIdle
    /\ ResolverIdle
    /\ PollingIdle
    /\ IngressIdle
    /\ FinalizeIdle
    /\ PlanIdle
    /\ x_scaling_configs \in SeqsUpTo(ServiceTargetScalings, MaxScalingServices)
    /\ x_scaling = <<>>
    /\ merge_result = "none"

merge_family_services_scaling ==
    /\ merge_result = "none"
    /\ x_scaling' = <<merge_target_scaling(DefaultTargetScaling, x_scaling_configs)>>
    /\ merge_result' = "ok"
    /\ UNCHANGED x_scaling_configs
    /\ UNCHANGED <<portsVars, scalingVars, sortVars, familyVars, computeVars, listenerVars,
                   resolverVars, pollingVars, ingressVars, finalizeVars, planVars>>

NextTracking == merge_family_services_scaling

SpecTracking == InitTracking /\ [][NextTracking]_vars

(* Claims on the target tracking merge *)

\* The values the services declare for a key.
DeclaredValues(prop) ==
    { x_scaling_configs[i][prop][1] :
        i \in { j \in 1..Len(x_scaling_configs) : x_scaling_configs[j][prop] # Unset } }

\* C20: for each of CpuTarget, MemoryTarget and TgtTargetsCount, the family
\* value is the minimum of the values the services declare for it.
C20_NumericTargetsByMinimum ==
    merge_result = "ok" =>
        \A prop \in {"CpuTarget", "MemoryTarget", "TgtTargetsCount"} :
            DeclaredValues(prop) # {} =>
                /\ x_scaling[1][prop] # Unset
                /\ x_scaling[1][prop][1] \in DeclaredValues(prop)
                /\ \A v \in DeclaredValues(prop) : x_scaling[1][prop][1] <= v

\* C21: the family DisableScaleIn is true exactly when at least one service
\* declares DisableScaleIn true in its TargetScaling.
C21_DisableScaleInByOr ==
    merge_result = "ok" =>
        (x_scaling[1]["DisableScaleIn"] = Some(TRUE)
            <=> \E i \in 1..Len(x_scaling_configs) :
                    x_scaling_configs[i]["DisableScaleIn"] = Some(TRUE))

----------------------------------------------------------------------------
(* Security group ingress of a family *)

MaxIngressCalls == 2

\* The load balancers that may target the family.
LbNames == {"lbA", "lbB"}

\* ServiceNetworking.ports is what merge_services_ports left.
MergedPortLists ==
    {merge_all(<<>>, source_ports(sp)) : sp \in SeqsUpTo(ServicePortLists, MaxFamilyPortSets)}

\* f"FromLB{lb_name}To{self.family.stack.title}On{port['target']}"
lb_rule_title(lb_name, port) == <<"FromLB", lb_name, "On", port.target>>

\* The loop of add_lb_ingress: it returns at the first title already in the
\* template resources.
RECURSIVE add_lb_rules(_, _, _)
add_lb_rules(resources, lb_name, todo) ==
    IF todo = <<>> THEN resources
    ELSE LET port == Head(todo)
             title == lb_rule_title(lb_name, port)
         IN  IF \E r \in resources : r.title = title THEN resources
             ELSE add_lb_rules(
                     resources \cup {[title |-> title, FromPort |-> port.target,
                                      IpProtocol |-> port.protocol, Source |-> lb_name]},
                     lb_name, Tail(todo))

\* f"AllowingInterCommunicationPort{target_port}{port['protocol']}", where
\* target_port is the published port (every declaration carries one).
self_rule_title(port) ==
    <<"AllowingInterCommunicationPort", port.published, port.protocol>>

\* The loop of add_self_ingress.  The rule is added to the template when it is
\* constructed, and a template refuses a title it already holds (ValueError:
\* duplicate key); the rules of the earlier ports stay.
RECURSIVE add_self_rules(_, _, _)
add_self_rules(resources, rules, todo) ==
    IF todo = <<>> THEN [resources |-> resources, rules |-> rules, result |-> "ok"]
    ELSE LET port == Head(todo)
             rule == [title |-> self_rule_title(port), FromPort |-> port.published,
                      IpProtocol |-> port.protocol, Source |-> "Myself"]
         IN  IF \E r \in resources : r.title = rule.title
             THEN [resources |-> resources, rules |-> rules, result |-> "ValueError"]
             ELSE add_self_rules(resources \cup {rule}, Append(rules, rule), Tail(todo))

InitIngress ==
    /\ PortsIdle
    /\ ScalingIdle
    /\ SortIdle
    /\ FamilyIdle
    /\ ComputeIdle
    /\ ListenerIdle
    /\ ResolverIdle
    /\ PollingIdle
    /\ TrackingIdle
    /\ FinalizeIdle
    /\ PlanIdle
    /\ ingress_ports \in MergedPortLists
    /\ family_ready \in BOOLEAN
    /\ ingress_from_self \in BOOLEAN
    /\ template_resources = {}
    /\ to_self_rules = <<>>
    /\ ingress_call = [op |-> "", lb_name |-> ""]
    /\ ingress_calls = 0
    /\ ingress_result = "none"

add_lb_ingress ==
    /\ ingress_calls < MaxIngressCalls
    /\ \E lb_name \in LbNames :
        /\ ingress_call' = [op |-> "add_lb_ingress", lb_name |-> lb_name]
        /\ template_resources' =
              IF ~family_ready THEN template_resources
              ELSE add_lb_rules(template_resources, lb_name, ingress_ports)
    /\ ingress_calls' = ingress_calls + 1
    /\ ingress_result' = "ok"
    /\ UNCHANGED <<ingress_ports, family_ready, ingress_from_self, to_self_rules>>
    /\ UNCHANGED <<portsVars, scalingVars, sortVars, familyVars, computeVars, listenerVars, resolverVars, pollingVars, trackingVars, finalizeVars, planVars>>

add_self_ingress ==
    /\ ingress_calls < MaxIngressCalls
    /\ ingress_call' = [op |-> "add_self_ingress", lb_name |-> ""]
    /\ ingress_calls' = ingress_calls + 1
    /\ IF ~family_ready \/ ~ingress_from_self
       THEN /\ ingress_result' = "ok"
            /\ UNCHANGED <<template_resources, to_self_rules>>
       ELSE LET out == add_self_rules(template_resources, to_self_rules, ingress_ports)
            IN  /\ template_resources' = out.resources
                /\ to_self_rules' = out.rules
                /\ ingress_result' = out.result
    /\ UNCHANGED <<ingress_ports, family_ready, ingress_from_self>>
    /\ UNCHANGED <<portsVars, scalingVars, sortVars, familyVars, computeVars, listenerVars, resolverVars, pollingVars, trackingVars, finalizeVars, planVars>>

NextIngress == add_lb_ingress \/ add_self_ingress

SpecIngress == InitIngress /\ [][NextIngress]_vars

(* Claims on the ingress rules *)

\* C22: for a family that has a template and a service, after
\* add_lb_ingress(lb) the template holds exactly one ingress rule from that
\* load balancer for every distinct (port, protocol) of the merged port set.
C22_LbRulePerPortAndProtocol ==
    (family_ready /\ ingress_call.op = "add_lb_ingress") =>
        \A i \in 1..Len(ingress_ports) :
            Cardinality({r \in template_resources :
                            /\ r.Source = ingress_call.lb_name
                            /\ r.FromPort = ingress_ports[i].target
                            /\ r.IpProtocol = ingress_ports[i].protocol}) = 1

\* C23: with self-ingress enabled, after any number of add_self_ingress calls
\* there is exactly one self-referencing rule per (port, protocol) name, and
\* no call raises.
C23_SelfIngressIdempotent ==
    (family_ready /\ ingress_from_self /\ ingress_call.op = "add_self_ingress") =>
        /\ ingress_result = "ok"
        /\ \A i \in 1..Len(ingress_ports) :
              Cardinality({k \in 1..Len(to_self_rules) :
                              to_self_rules[k].title = self_rule_title(ingress_ports[i])}) = 1

(* Claims on the order of the family's containers *)

\* C24: the ContainerDefinitions of the task definition hold the container
\* definitions of the family's services in the order of the `services`
\* sequence, each container declared once.
C24_ContainerDefinitionsFollowServices ==
    (family_result = "ok" /\ task_definition # <<>>) =>
        /\ task_definition[1] = family_services(managed_sidecars, ordered_services)
        /\ \A i, j \in 1..Len(task_definition[1]) :
              task_definition[1][i] = task_definition[1][j] => i = j

\* C28: the `services` sequence (managed side-cars followed by ordered
\* services) contains every container exactly once: no managed side-car is in
\* ordered_services and no container is listed twice.
C28_ServicesListEachContainerOnce ==
    family_result = "ok" =>
        LET services == family_services(managed_sidecars, ordered_services)
        IN  /\ Range(managed_sidecars) \cap Range(ordered_services) = {}
            /\ \A i, j \in 1..Len(services) : services[i] = services[j] => i = j
            /\ Range(compose_services) \cup Range(managed_sidecars) \subseteq Range(services)

(* Claims on the actions of a target *)

\* C25 (as stated): for every declared target, define_actions raises and
\* returns no actions when the target declares an authentication and the
\* listener's protocol is not HTTPS, returns the authentication action (order
\* 1) followed by the forward (order 2) when the protocol is HTTPS, and
\* returns the forward alone (order 1) with no authentication.
C25_AuthOnlyOnHttps ==
    \A i \in 1..Len(listener_services) :
        LET target_def == listener_services[i]
            out == define_actions(Protocol, Certificates, target_def)
        IN  /\ (target_def.auth # "none" /\ Protocol # "HTTPS")
                  => (out.result # "ok" /\ out.actions = <<>>)
            /\ (target_def.auth # "none" /\ Protocol = "HTTPS")
                  => (/\ out.result = "ok"
                      /\ out.actions = <<authenticate_action(target_def),
                                         forward_action(target_def, 2)>>)
            /\ target_def.auth = "none"
                  => (/\ out.result = "ok"
                      /\ out.actions = <<forward_action(target_def, 1)>>)

\* C25 (amended): for every declared target bound to a target group,
\* define_actions raises AttributeError and returns no actions when the target
\* declares an authentication and the listener's protocol is not HTTPS or its
\* certificate list is empty; returns the authentication action (order 1)
\* followed by the forward (order 2) when the protocol is HTTPS and the
\* certificate list is not empty; returns the forward alone (order 1) with no
\* authentication.  A target bound to no target group raises KeyError.
C25_AuthOnlyOnHttpsWithCertificates ==
    \A i \in 1..Len(listener_services) :
        LET target_def == listener_services[i]
            out == define_actions(Protocol, Certificates, target_def)
            encrypted == Protocol = "HTTPS" /\ Certificates # "empty"
        IN  /\ ~target_def.target_arn
                  => (out.result = "KeyError" /\ out.actions = <<>>)
            /\ (target_def.target_arn /\ target_def.auth # "none" /\ ~encrypted)
                  => (out.result = "AttributeError" /\ out.actions = <<>>)
            /\ (target_def.target_arn /\ target_def.auth # "none" /\ encrypted)
                  => (/\ out.result = "ok"
                      /\ out.actions = <<authenticate_action(target_def),
                                         forward_action(target_def, 2)>>
                      /\ out.actions[1].Order = 1
                      /\ out.actions[1].Type \in {"authenticate-cognito", "authenticate-oidc"})
            /\ (target_def.target_arn /\ target_def.auth = "none")
                  => (/\ out.result = "ok"
                      /\ out.actions = <<forward_action(target_def, 1)>>)

\* C25 witness: on an HTTPS listener, a conditional rule was built for a
\* target with authentication: the authentication, then the forward.
C25_Witness ==
    /\ listener_result = "ok"
    /\ Protocol = "HTTPS"
    /\ \E k \in 1..Len(template_rules) :
          /\ Len(template_rules[k].Actions) = 2
          /\ template_rules[k].Actions[1].Type = "authenticate-cognito"
          /\ template_rules[k].Actions[1].Order = 1
          /\ template_rules[k].Actions[2].Type = "forward"
          /\ template_rules[k].Actions[2].Order = 2

(* Claims on the scalable target's capacity *)

\* C27: after generate_scaling_out_steps returned for a scalable target, the
\* target's MaxCapacity is at least the Count of every emitted step.
C27_MaxCapacityCoversEveryStep ==
    (scaling_result = "ok" /\ has_target) =>
        \A i \in 1..Len(cfn_steps) : max_capacity >= cfn_steps[i].ScalingAdjustment

\* C29: whenever generate_scaling_out_steps raises, the scalable target's
\* MaxCapacity is what it was before the call.
C29_FailedValidationKeepsMaxCapacity ==
    (has_target /\ scaling_result \in {"KeyError", "ValueError"}) =>
        max_capacity = max_capacity_in

----------------------------------------------------------------------------
(* Final pass of a family *)

\* The calls of finalize_family_settings, in the order of its statements.
FinalizeSteps ==
    << "finalize_network_settings",
       "finalize_family_compute",
       "set_service_dependency_on_all_iam_policies",
       "finalize_lb_settings",
       "finalize_scaling_settings",
       "generate_outputs",
       "handle_same_task_services_dependencies",
       "set_add_region_when_external",
       "sort_secrets_env_vars" >>

\* The statement finalize_family_settings runs next, "" once it is over.
next_finalize_step ==
    IF Len(finalize_trace) < Len(FinalizeSteps) /\ sort_result = "none"
    THEN FinalizeSteps[Len(finalize_trace) + 1]
    ELSE ""

InitFinalize ==
    /\ PortsIdle
    /\ ScalingIdle
    /\ FamilyIdle
    /\ ComputeIdle
    /\ ListenerIdle
    /\ ResolverIdle
    /\ PollingIdle
    /\ TrackingIdle
    /\ IngressIdle
    /\ PlanIdle
    /\ containers_in \in {<<sc, c>> : sc \in SidecarContainers, c \in ServiceContainers}
    /\ containers = containers_in
    /\ sort_result = "none"
    /\ finalize_trace = <<>>

\* A statement of finalize_family_settings before the last one: the
\* containers' Secrets and Environment are left as they are.
finalize_family_settings_step ==
    /\ next_finalize_step \notin {"", "sort_secrets_env_vars"}
    /\ finalize_trace' = Append(finalize_trace, next_finalize_step)
    /\ UNCHANGED sortVars
    /\ UNCHANGED <<portsVars, scalingVars, familyVars, computeVars, listenerVars, resolverVars, pollingVars, trackingVars, ingressVars, planVars>>

\* The last statement of finalize_family_settings: self.sort_secrets_env_vars().
finalize_family_settings_sort ==
    /\ next_finalize_step = "sort_secrets_env_vars"
    /\ finalize_trace' = Append(finalize_trace, next_finalize_step)
    /\ LET r == sort_all(<<>>, containers)
       IN  /\ containers' = r.containers
           /\ sort_result' = r.result
    /\ UNCHANGED containers_in
    /\ UNCHANGED <<portsVars, scalingVars, familyVars, computeVars, listenerVars, resolverVars, pollingVars, trackingVars, ingressVars, planVars>>

NextFinalize == finalize_family_settings_step \/ finalize_family_settings_sort

SpecFinalize == InitFinalize /\ [][NextFinalize]_vars

(* Claims on the final pass *)

\* C26: in finalize_family_settings the secrets/environment sort of every
\* container has completed before the IAM policy dependencies are attached
\* and before generate_outputs runs.
C26_SortBeforeIamAndOutputs ==
    \A k \in 1..Len(finalize_trace) :
        finalize_trace[k] \in {"set_service_dependency_on_all_iam_policies", "generate_outputs"}
            => \E j \in 1..(k - 1) : finalize_trace[j] = "sort_secrets_env_vars"

----------------------------------------------------------------------------
(* Plan mode *)

\* assert_can_update_stack, lines 266-271
can_update_statuses ==
    {"CREATE_COMPLETE", "ROLLBACK_COMPLETE", "UPDATE_COMPLETE", "UPDATE_ROLLBACK_COMPLETE"}

\* assert_can_create_stack: truthy when no stack of that name exists or when
\* the stack is in REVIEW_IN_PROGRESS.
assert_can_create_stack(status) == status = "" \/ status = "REVIEW_IN_PROGRESS"

\* assert_can_update_stack
assert_can_update_stack(status) == status # "" /\ status \in can_update_statuses

InitPlan ==
    /\ PortsIdle
    /\ ScalingIdle
    /\ SortIdle
    /\ FamilyIdle
    /\ ComputeIdle
    /\ ListenerIdle
    /\ ResolverIdle
    /\ PollingIdle
    /\ TrackingIdle
    /\ IngressIdle
    /\ FinalizeIdle
    /\ stack_status \in {"", "REVIEW_IN_PROGRESS", "UPDATE_IN_PROGRESS"} \cup can_update_statuses
    /\ plan_valid \in BOOLEAN
    /\ plan_apply \in {None, "True", "False"}
    /\ plan_cleanup \in {None, "True", "False"}
    /\ plan_pc = "plan"
    /\ cfn_requests = <<>>

\* plan, up to the call of plan_user_input: the settings are validated, the
\* change set is created when the stack can be created or updated, and its
\* status is awaited.  CloudFormation either accepts create_change_set or
\* answers with an error; get_change_set_status returns the status or exits.
plan ==
    /\ plan_pc = "plan"
    /\ IF ~plan_valid
       THEN /\ plan_pc' = "RuntimeError"
            /\ UNCHANGED cfn_requests
       ELSE IF assert_can_create_stack(stack_status) \/ assert_can_update_stack(stack_status)
            THEN \/ /\ plan_pc' = "ClientError"
                    /\ UNCHANGED cfn_requests
                 \/ /\ cfn_requests' = Append(cfn_requests, "create_change_set")
                    /\ plan_pc' \in {"plan_user_input", "SystemExit"}
            ELSE /\ plan_pc' = "returned"
                 /\ UNCHANGED cfn_requests
    /\ UNCHANGED <<stack_status, plan_valid, plan_apply, plan_cleanup>>
    /\ UNCHANGED <<portsVars, scalingVars, sortVars, familyVars, computeVars, listenerVars, resolverVars, pollingVars, trackingVars, ingressVars, finalizeVars>>

\* plan_user_input: an argument left to None is asked to the user.
plan_user_input ==
    /\ plan_pc = "plan_user_input"
    /\ \E apply_q, delete_q \in BOOLEAN :
          LET apply == IF plan_apply = None THEN apply_q ELSE plan_apply = "True"
              cleanup == IF plan_cleanup = None THEN delete_q ELSE plan_cleanup = "True"
          IN  cfn_requests' =
                 IF apply THEN Append(cfn_requests, "execute_change_set")
                 ELSE IF cleanup THEN Append(cfn_requests, "delete_stack")
                 ELSE cfn_requests
    /\ plan_pc' = "returned"
    /\ UNCHANGED <<stack_status, plan_valid, plan_apply, plan_cleanup>>
    /\ UNCHANGED <<portsVars, scalingVars, sortVars, familyVars, computeVars, listenerVars, resolverVars, pollingVars, trackingVars, ingressVars, finalizeVars>>

NextPlan == plan \/ plan_user_input

SpecPlan == InitPlan /\ [][NextPlan]_vars

(* Claims on plan mode *)

\* C30: for a stack that existed in an updatable status before plan was
\* invoked, plan followed by plan_user_input issues no stack deletion: the
\* only deletion cleanup may issue is that of the change set of this plan.
C30_PlanNeverDeletesDeployedStack ==
    stack_status \in can_update_statuses =>
        \A k \in 1..Len(cfn_requests) : cfn_requests[k] # "delete_stack"
====
